---------------------------- MODULE Spec2Model ----------------------------
(***************************************************************************)
(* Model of the submission-summary-viewer record decoder                   *)
(* (src/src/submission_summary.rs).                                        *)
(*                                                                         *)
(* A Rust String / &str is a TLA+ string: Len is its length in bytes (the  *)
(* modelled inputs are ASCII), SubSeq(s, a + 1, b) is the slice s[a..b]    *)
(* and \o is concatenation.  Result<T, ()> is the record [ok, val] and     *)
(* Option<T> the record [some, val].                                       *)
(***************************************************************************)
EXTENDS Integers, Sequences, FiniteSets, TLC

VARIABLES
  fn,      \* the function under evaluation
  arg,     \* its argument: the &str handed to it
  ret,     \* its return value, once pc = "done"
  pc,      \* "call" before the function has run, "done" after
  ui,      \* the application state: struct Ui of main.rs
  files,   \* the file system: what fs::read_to_string gives for each path
  tasks    \* the number of pick_file dialogs that have not yet answered

vars == <<fn, arg, ret, pc, ui, files, tasks>>

---------------------------------------------------------------------------
(* Strings *)

\* the character s[i - 1 .. i] of a string, as a string of length one
At(s, i) == SubSeq(s, i, i)

Chars(s) == {At(s, i) : i \in 1..Len(s)}

Digits == Chars("0123456789")
NonZeroDigits == Chars("123456789")
HexDigits == Chars("0123456789abcdefABCDEF")

\* every character of s is in set
AllIn(s, set) == \A i \in 1..Len(s) : At(s, i) \in set

---------------------------------------------------------------------------
(* Result and Option *)

Ok(v) == [ok |-> TRUE, val |-> v]
Err == [ok |-> FALSE, val |-> <<>>]
Some(v) == [some |-> TRUE, val |-> v]
None == [some |-> FALSE, val |-> <<>>]

---------------------------------------------------------------------------
(* The structural checks of SubmissionSummary *)

\* the length of a run of hex digits that tan and hash_wert must contain
HashLen == 64

\* the character class without the lower-case letters: [0-9A-F]{64}
matches_hash_tan_pattern_UpperOnly(s) ==
  \E i \in 1..(Len(s) - HashLen + 1) :
    AllIn(SubSeq(s, i, i + HashLen - 1), Chars("0123456789ABCDEF"))

\* the pattern anchored at both ends: the text is the run and nothing else
matches_hash_tan_pattern_Anchored(s) == Len(s) = HashLen /\ AllIn(s, HexDigits)

\* regex [0-9a-fA-F]{64}, unanchored: some window of 64 characters is all hex
matches_hash_tan_pattern(s) ==
  \E i \in 1..(Len(s) - HashLen + 1) : AllIn(SubSeq(s, i, i + HashLen - 1), HexDigits)

\* the number of digits of a well-formed counter
CountLen == 3

\* the pattern with a quantifier {1,3} in place of {3}
matches_count_pattern_UpToThree(s) == Len(s) \in 1..CountLen /\ AllIn(s, Digits)

\* regex ^[0-9]{3}$ : $ matches at the end of the text only
matches_count_pattern(s) == Len(s) = CountLen /\ AllIn(s, Digits)

\* regex group (0[1-9]|1[0-2]) on a two-character string
MonthGroup(m) ==
  \/ At(m, 1) = "0" /\ At(m, 2) \in NonZeroDigits
  \/ At(m, 1) = "1" /\ At(m, 2) \in Chars("012")

\* regex group ([0-2][0-9]|3[0-1]) on a two-character string
DayGroup(d) ==
  \/ At(d, 1) \in Chars("012") /\ At(d, 2) \in Digits
  \/ At(d, 1) = "3" /\ At(d, 2) \in Chars("01")

\* regex ^20[0-9]{2}-(0[1-9]|1[0-2])-([0-2][0-9]|3[0-1])$
is_reasonable_date(s) ==
  /\ Len(s) = 10
  /\ SubSeq(s, 1, 2) = "20"
  /\ AllIn(SubSeq(s, 3, 4), Digits)
  /\ At(s, 5) = "-"
  /\ MonthGroup(SubSeq(s, 6, 7))
  /\ At(s, 8) = "-"
  /\ DayGroup(SubSeq(s, 9, 10))

\* the pattern with [0-9]{1,3} for the counter: any last digit
DateAndNumberRegex_AnyLastDigit(s) ==
  /\ Len(s) >= 9
  /\ Len(s) <= 11
  /\ SubSeq(s, 1, 2) = "20"
  /\ AllIn(SubSeq(s, 3, 4), Digits)
  /\ MonthGroup(SubSeq(s, 5, 6))
  /\ DayGroup(SubSeq(s, 7, 8))
  /\ AllIn(SubSeq(s, 9, Len(s)), Digits)

\* regex ^20[0-9]{2}(0[1-9]|1[0-2])([0-2][0-9]|3[0-1])[0-9]{0,2}[1-9]$
DateAndNumberRegex(s) ==
  /\ Len(s) >= 9
  /\ Len(s) <= 11
  /\ SubSeq(s, 1, 2) = "20"
  /\ AllIn(SubSeq(s, 3, 4), Digits)
  /\ MonthGroup(SubSeq(s, 5, 6))
  /\ DayGroup(SubSeq(s, 7, 8))
  /\ AllIn(SubSeq(s, 9, Len(s) - 1), Digits)
  /\ At(s, Len(s)) \in NonZeroDigits

\* format!("{}-{}-{}", &s[0..4], &s[4..6], &s[6..8])
FormatDate(s) == SubSeq(s, 1, 4) \o "-" \o SubSeq(s, 5, 6) \o "-" \o SubSeq(s, 7, 8)

\* the counter parsed as a number and printed again: leading zeros lost
ParseCounter_AsNumber(s) ==
  LET digits == SubSeq(s, 9, Len(s))
      zeros == {i \in 1..Len(digits) : \A j \in 1..i : At(digits, j) = "0"}
  IN Some(SubSeq(digits, Cardinality(zeros) + 1, Len(digits)))

\* s[8..s.len()].parse::<String>().ok() : String's FromStr is infallible
ParseCounter(s) == Some(SubSeq(s, 9, Len(s)))

\* Option<(String, String)>: the pair <<date, counter>>
parse_date_and_number(s) ==
  IF Len(s) < 9 \/ ~DateAndNumberRegex(s)
  THEN None
  ELSE LET date == FormatDate(s)
           counter == ParseCounter(s)
       IN IF counter.some THEN Some(<<date, counter.val>>) ELSE None

---------------------------------------------------------------------------
(* Checked values *)

\* struct StringValue(String, bool): the pair <<text, invalid>>
StringValue_new(s, invalid) == <<s, invalid>>
StringValue_new_valid(s) == StringValue_new(s, FALSE)

\* the flag alone, an empty text not looked at
StringValue_is_invalid_FlagOnly(self) == self[2]

\* impl CheckedValue for StringValue: self.1 || self.0.is_empty()
StringValue_is_invalid(self) == self[2] \/ self[1] = ""

\* a value of a coded enum: <<variant>>, or <<"Unknown", text>> for Unknown(String)
Variant(name) == <<name>>
Unknown(u) == <<"Unknown", u>>

\* impl CheckedValue for each coded enum: matches!(self, Self::Unknown(_))
Coded_is_invalid(self) == self[1] = "Unknown"

\* no catch-all arm: an unknown code is an error
MatchArms_UnknownFails(arms, s) ==
  IF \E a \in arms : a[1] = s
  THEN Ok(Variant((CHOOSE a \in arms : a[1] = s)[2]))
  ELSE Err

\* the catch-all arm builds Unknown from a fresh String, the text dropped
MatchArms_UnknownEmpty(arms, s) ==
  IF \E a \in arms : a[1] = s
  THEN Ok(Variant((CHOOSE a \in arms : a[1] = s)[2]))
  ELSE Ok(Unknown(""))

\* match s { "<code>" => Ok(<variant>), ..., u => Ok(Unknown(u.to_string())) }
MatchArms(arms, s) ==
  IF \E a \in arms : a[1] = s
  THEN Ok(Variant((CHOOSE a \in arms : a[1] = s)[2]))
  ELSE Ok(Unknown(s))

\* the arms of Datacenter::from_str before the catch-all arm: <<code, variant>>
DatacenterArms ==
  {<<"GRZK00001", "GRZK00001">>, <<"GRZTUE002", "GRZTUE002">>,
    <<"GRZHD0003", "GRZHD0003">>, <<"GRZDD0004", "GRZDD0004">>,
    <<"GRZM00006", "GRZM00006">>, <<"GRZB00007", "GRZB00007">>,
    <<"KDKDD0001", "KDKDD0001">>, <<"KDKTUE002", "KDKTUE002">>,
    <<"KDKL00003", "KDKL00003">>, <<"KDKL00004", "KDKL00004">>,
    <<"KDKTUE005", "KDKTUE005">>, <<"KDKHD0006", "KDKHD0006">>,
    <<"KDKK00007", "KDKK00007">>}

Datacenter_from_str(s) == MatchArms(DatacenterArms, s)

\* the arms of Ik::from_str before the catch-all arm: <<code, variant>>
IkArms ==
  {<<"260530012", "Ik260530012">>, <<"261101015", "Ik261101015">>,
    <<"260590071", "Ik260590071">>, <<"260530103", "Ik260530103">>,
    <<"261401030", "Ik261401030">>, <<"260510018", "Ik260510018">>,
    <<"260950567", "Ik260950567">>, <<"260510381", "Ik260510381">>,
    <<"260832299", "Ik260832299">>, <<"260610279", "Ik260610279">>,
    <<"260310378", "Ik260310378">>, <<"261500702", "Ik261500702">>,
    <<"260200013", "Ik260200013">>, <<"260320597", "Ik260320597">>,
    <<"260820466", "Ik260820466">>, <<"261600736", "Ik261600736">>,
    <<"260530283", "Ik260530283">>, <<"261401052", "Ik261401052">>,
    <<"260730161", "Ik260730161">>, <<"260620431", "Ik260620431">>,
    <<"260914050", "Ik260914050">>, <<"260913195", "Ik260913195">>,
    <<"260550131", "Ik260550131">>, <<"260930608", "Ik260930608">>,
    <<"260102343", "Ik260102343">>, <<"260840108", "Ik260840108">>,
    <<"260840200", "Ik260840200">>, <<"260960079", "Ik260960079">>}

\* the match expression of another impl pasted in: the data center codes
Ik_from_str_DatacenterArms(s) == MatchArms(DatacenterArms, s)

Ik_from_str(s) == MatchArms(IkArms, s)

\* the arms of TypDerMeldung::from_str before the catch-all arm: <<code, variant>>
TypDerMeldungArms ==
  {<<"0", "Erstmeldung">>, <<"1", "FollowUp">>, <<"2", "Nachmeldung">>,
    <<"3", "Korrektur">>, <<"9", "Testmeldung">>}

TypDerMeldung_from_str(s) == MatchArms(TypDerMeldungArms, s)

\* the arms of Indikationsbereich::from_str before the catch-all arm: <<code, variant>>
IndikationsbereichArms ==
  {<<"O", "O">>, <<"R", "R">>, <<"H", "H">>}

Indikationsbereich_from_str(s) == MatchArms(IndikationsbereichArms, s)

\* the arms of Kostentraeger::from_str before the catch-all arm: <<code, variant>>
KostentraegerArms ==
  {<<"1", "Gkv">>, <<"2", "Pkv">>, <<"3", "PkvBeihilfe">>, <<"4", "Andere">>}

Kostentraeger_from_str(s) == MatchArms(KostentraegerArms, s)

\* the arms of ArtDerDaten::from_str before the catch-all arm: <<code, variant>>
ArtDerDatenArms ==
  {<<"C", "C">>, <<"G", "G">>}

ArtDerDaten_from_str(s) == MatchArms(ArtDerDatenArms, s)

\* the arms of ArtDerSequenzierung::from_str before the catch-all arm: <<code, variant>>
ArtDerSequenzierungArms ==
  {<<"0", "Keine">>, <<"1", "Wgs">>, <<"2", "Wes">>, <<"3", "Panel">>, <<"4", "WgsLr">>}

ArtDerSequenzierung_from_str(s) == MatchArms(ArtDerSequenzierungArms, s)

---------------------------------------------------------------------------
(* Display of the coded fields *)

\* match self { <variant> => write!(f, "<text>"), ..,
\*              Unknown(u) => write!(f, "Unbekannter Wert: '{u}'") }
Fmt(texts, self) ==
  IF self[1] = "Unknown"
  THEN "Unbekannter Wert: '" \o self[2] \o "'"
  ELSE (CHOOSE t \in texts : t[1] = self[1])[2]

\* the arms of <Datacenter as Display>::fmt before the Unknown arm: <<variant, text>>
DatacenterTexts ==
  {<<"GRZK00001", "GRZ Köln (GRZK00001)">>,
   <<"GRZTUE002", "GRZ Tübingen (GRZTUE002)">>,
   <<"GRZHD0003", "GRZ Heidelberg (GRZHD0003)">>,
   <<"GRZDD0004", "GRZ Dresden (GRZDD0004)">>,
   <<"GRZM00006", "GRZ München (GRZM00006)">>,
   <<"GRZB00007", "GRZ Berlin (GRZB00007)">>,
   <<"KDKDD0001", "Gfh-NET (KDKDD0001)">>,
   <<"KDKTUE002", "NSE (KDKTUE002)">>,
   <<"KDKL00003", "DK-FBREK (KDKL00003)">>,
   <<"KDKL00004", "DK-FDK (KDKL00004)">>,
   <<"KDKTUE005", "DNPM (KDKTUE005)">>,
   <<"KDKHD0006", "NCT/DKTK MASTER (KDKHD0006)">>,
   <<"KDKK00007", "nNGM (KDKK00007)">>}

Datacenter_fmt(self) == Fmt(DatacenterTexts, self)

\* the arms of <Ik as Display>::fmt before the Unknown arm: <<variant, text>>
IkTexts ==
  {<<"Ik260530012", "Universitätsklinikum Aachen (260530012)">>,
   <<"Ik261101015", "Charité Universitätsmedizin Berlin (261101015)">>,
   <<"Ik260590071", "Universitätsklinikum der Ruhr-Universität Bochum (260590071)">>,
   <<"Ik261401030", "Universitätsklinikum Carl Gustav Carus an der TU Dresden (261401030)">>,
   <<"Ik260530103", "Universitätsklinikum Bonn (260530103)">>,
   <<"Ik260510018", "Universitätsklinikum Düsseldorf (260510018)">>,
   <<"Ik260950567", "Universitätsklinikum Erlangen (260950567)">>,
   <<"Ik260510381", "Universitätsklinikum Essen (260510381)">>,
   <<"Ik260832299", "Universitätsklinikum Freiburg (260832299)">>,
   <<"Ik260610279", "Universitätsklinikum Gießen und Marburg, Standort Gießen (260610279)">>,
   <<"Ik260310378", "Universitätsmedizin Göttingen (260310378)">>,
   <<"Ik261500702", "Universitätsklinikum Halle (261500702)">>,
   <<"Ik260200013", "Universitätsklinikum Hamburg-Eppendorf (260200013)">>,
   <<"Ik260320597", "Medizinische Hochschule Hannover (260320597)">>,
   <<"Ik260820466", "Universitätsklinikum Heidelberg (260820466)">>,
   <<"Ik261600736", "Universitätsklinikum Jena (261600736)">>,
   <<"Ik260530283", "Universitätsklinikum Köln (260530283)">>,
   <<"Ik261401052", "Universitätsklinikum Leipzig (261401052)">>,
   <<"Ik260730161", "Universitätsmedizin Mainz (260730161)">>,
   <<"Ik260620431", "Universitätsklinikum Gießen und Marburg, Standort Marburg (260620431)">>,
   <<"Ik260914050", "Klinikum der Universität München (260914050)">>,
   <<"Ik260913195", "Klinikum rechts der Isar der TU München/TUM-Klinikum (260913195)">>,
   <<"Ik260550131", "Universitätsklinikum Münster (260550131)">>,
   <<"Ik260930608", "Universitätsklinikum Regensburg (260930608)">>,
   <<"Ik260102343", "Universitätsklinikum Schleswig-Holstein (260102343)">>,
   <<"Ik260840108", "Universitätsklinikum Tübingen (260840108)">>,
   <<"Ik260840200", "Universitätsklinikum Ulm (260840200)">>,
   <<"Ik260960079", "Universitätsklinikum Würzburg (260960079)">>}

Ik_fmt(self) == Fmt(IkTexts, self)

\* the arms of <TypDerMeldung as Display>::fmt before the Unknown arm: <<variant, text>>
TypDerMeldungTexts ==
  {<<"Erstmeldung", "Erstmeldung">>,
   <<"FollowUp", "Follow-Up">>,
   <<"Nachmeldung", "Nachmeldung">>,
   <<"Korrektur", "Korrektur">>,
   <<"Testmeldung", "Testmeldung">>}

TypDerMeldung_fmt(self) == Fmt(TypDerMeldungTexts, self)

\* the arms of <Indikationsbereich as Display>::fmt before the Unknown arm: <<variant, text>>
IndikationsbereichTexts ==
  {<<"O", "Onkologische Erkrankung">>,
   <<"R", "Seltene Erkrankung">>,
   <<"H", "Hereditäres Tumorprädispositionssyndrom">>}

Indikationsbereich_fmt(self) == Fmt(IndikationsbereichTexts, self)

\* the arms of <Kostentraeger as Display>::fmt before the Unknown arm: <<variant, text>>
KostentraegerTexts ==
  {<<"Gkv", "GKV">>,
   <<"Pkv", "PKV">>,
   <<"PkvBeihilfe", "PKV/Beihilfe">>,
   <<"Andere", "andere">>}

Kostentraeger_fmt(self) == Fmt(KostentraegerTexts, self)

\* the arms of <ArtDerDaten as Display>::fmt before the Unknown arm: <<variant, text>>
ArtDerDatenTexts ==
  {<<"C", "Klinische Daten">>,
   <<"G", "genomische Daten">>}

ArtDerDaten_fmt(self) == Fmt(ArtDerDatenTexts, self)

\* the arms of <ArtDerSequenzierung as Display>::fmt before the Unknown arm: <<variant, text>>
ArtDerSequenzierungTexts ==
  {<<"Keine", "Keine">>,
   <<"Wgs", "WGS">>,
   <<"Wes", "WES">>,
   <<"Panel", "Panel">>,
   <<"WgsLr", "WGS/LR">>}

ArtDerSequenzierung_fmt(self) == Fmt(ArtDerSequenzierungTexts, self)

---------------------------------------------------------------------------
(* SubmissionSummary::from_str *)

Header == "Vorgangsnummer,Meldebestaetigung"

\* str::split(delimiter) for a one-character delimiter: one part more than
\* there are delimiters, empty parts kept
Split(s, delimiter) ==
  LET at == {i \in 1..Len(s) : At(s, i) = delimiter}
      n == Cardinality(at)
      nth(k) == CHOOSE i \in at : Cardinality({j \in at : j < i}) = k - 1
      first(k) == IF k = 1 THEN 1 ELSE nth(k - 1) + 1
      last(k) == IF k = n + 1 THEN Len(s) ELSE nth(k) - 1
  IN [k \in 1..(n + 1) |-> SubSeq(s, first(k), last(k))]

\* str::lines: split at "\n", no empty last line after a final "\n", and the
\* "\r" of a "\r\n" line ending removed
Lines(s) ==
  LET pieces == Split(s, "\n")
      n == IF pieces[Len(pieces)] = "" THEN Len(pieces) - 1 ELSE Len(pieces)
      strip(k) ==
        LET p == pieces[k]
        IN IF k < Len(pieces) /\ Len(p) > 0 /\ At(p, Len(p)) = "\r"
           THEN SubSeq(p, 1, Len(p) - 1)
           ELSE p
  IN [k \in 1..n |-> strip(k)]

\* the ASCII characters with the White_Space property among the modelled ones
WhiteSpace == {" ", "\t", "\n", "\r"}

\* str::trim
Trim(s) ==
  LET kept(i) == At(s, i) \notin WhiteSpace
      first == CHOOSE i \in 1..Len(s) : kept(i) /\ \A j \in 1..(i - 1) : ~kept(j)
      last == CHOOSE i \in 1..Len(s) : kept(i) /\ \A j \in (i + 1)..Len(s) : ~kept(j)
  IN IF \A i \in 1..Len(s) : ~kept(i) THEN "" ELSE SubSeq(s, first, last)

\* starts_with in place of the comparison
HeaderMismatch_StartsWith(parts) ==
  Len(parts) < 2 \/ Len(parts[1]) < Len(Header) \/ SubSeq(parts[1], 1, Len(Header)) # Header

\* line 74: parts.len() < 2 || parts[0] != "Vorgangsnummer,Meldebestaetigung"
HeaderMismatch(parts) == Len(parts) < 2 \/ parts[1] # Header

\* line 79: parts.len() != 2
CommaMismatch(parts) == Len(parts) # 2

\* line 86: parts.len() != 5 || parts[0] != "IBE"
PlusMismatch(parts) == Len(parts) # 5 \/ parts[1] # "IBE"

\* a lower bound in place of the exact count
AmpersandMismatch_AtLeast(parts) == Len(parts) < 11

\* line 93: parts.len() != 11
AmpersandMismatch(parts) == Len(parts) # 11

\* the flag read after trimming the text
Accepted_Trimmed(part) == Trim(part) = "1"

\* line 113: parts[10] == "1"
Accepted(part) == part = "1"

\* lines 101-116: the struct expression; each `?` returns the decoder's Err
BuildSummary(tan, hash_string, hash_wert, parts, date, counter) ==
  LET ik == Ik_from_str(parts[3])
      datacenter == Datacenter_from_str(parts[4])
      typ_der_meldung == TypDerMeldung_from_str(parts[5])
      indikationsbereich == Indikationsbereich_from_str(parts[6])
      kostentraeger == Kostentraeger_from_str(parts[8])
      art_der_daten == ArtDerDaten_from_str(parts[9])
      art_der_sequenzierung == ArtDerSequenzierung_from_str(parts[10])
  IN IF \E r \in {ik, datacenter, typ_der_meldung, indikationsbereich, kostentraeger,
                  art_der_daten, art_der_sequenzierung} : ~r.ok
     THEN Err
     ELSE Ok([tan |-> StringValue_new(tan, ~matches_hash_tan_pattern(tan)),
              code |-> StringValue_new_valid(parts[1]),
              date |-> StringValue_new(date, ~is_reasonable_date(date)),
              counter |-> StringValue_new(counter, ~matches_count_pattern(counter)),
              ik |-> ik.val,
              datacenter |-> datacenter.val,
              typ_der_meldung |-> typ_der_meldung.val,
              indikationsbereich |-> indikationsbereich.val,
              kostentraeger |-> kostentraeger.val,
              art_der_daten |-> art_der_daten.val,
              art_der_sequenzierung |-> art_der_sequenzierung.val,
              accepted |-> Accepted(parts[11]),
              hash_string |-> hash_string,
              hash_wert |-> StringValue_new(hash_wert, ~matches_hash_tan_pattern(hash_wert))])

\* lines 92-116: the payload, split at "&"
FromPayload(tan, hash_string, hash_wert) ==
  LET parts == Split(hash_string, "&")
  IN IF AmpersandMismatch(parts) THEN Err
     ELSE LET dn == parse_date_and_number(parts[2])
          IN IF ~dn.some THEN Err
             ELSE BuildSummary(tan, hash_string, hash_wert, parts, dn.val[1], dn.val[2])

\* lines 85-116: the part after the comma, split at "+"
FromBody(tan, body) ==
  LET parts == Split(body, "+")
  IN IF PlusMismatch(parts) THEN Err
     ELSE FromPayload(tan, parts[3], parts[5])

\* Result<SubmissionSummary, ()>
SubmissionSummary_from_str(s) ==
  LET lines == Lines(s)
  IN IF HeaderMismatch(lines) THEN Err
     ELSE LET parts == Split(Trim(lines[2]), ",")
          IN IF CommaMismatch(parts) THEN Err
             ELSE FromBody(parts[1], parts[2])

---------------------------------------------------------------------------
(* SHA-256 (sha2::Sha256) and lower-case hex (base16ct::lower), as called  *)
(* by SubmissionSummary::valid_hash.  A 32-bit word is the pair <<hi, lo>> *)
(* of its 16-bit halves.                                                   *)

\* printable ASCII in code order, without the double quote (34), the quote (39),
\* the backslash (92) and the backquote (96)
AsciiLow == " !"
AsciiSigns == "#$%&"
AsciiMid == "()*+,-./0123456789:;<=>?@ABCDEFGHIJKLMNOPQRSTUVWXYZ["
AsciiMarks == "]^_"
AsciiHigh == "abcdefghijklmnopqrstuvwxyz{|}~"

CodesOf(str, first) == {<<At(str, i), first + i - 1>> : i \in 1..Len(str)}

AsciiPairs ==
  CodesOf(AsciiLow, 32) \cup CodesOf(AsciiSigns, 35) \cup CodesOf(AsciiMid, 40) \cup CodesOf(AsciiMarks, 93) \cup CodesOf(AsciiHigh, 97)
    \cup {<<"\t", 9>>, <<"\n", 10>>, <<"\r", 13>>}

AsciiCode == [c \in {p[1] : p \in AsciiPairs} |-> (CHOOSE p \in AsciiPairs : p[1] = c)[2]]

\* str::as_bytes
as_bytes(s) == [i \in 1..Len(s) |-> AsciiCode[At(s, i)]]

RECURSIVE BitXor(_, _, _)
BitXor(a, b, n) ==
  IF n = 0 THEN 0
  ELSE ((a + b) % 2) + 2 * BitXor(a \div 2, b \div 2, n - 1)

RECURSIVE BitAnd(_, _, _)
BitAnd(a, b, n) ==
  IF n = 0 THEN 0
  ELSE ((a % 2) * (b % 2)) + 2 * BitAnd(a \div 2, b \div 2, n - 1)

XorByte == [a \in 0..255 |-> [b \in 0..255 |-> BitXor(a, b, 8)]]
AndByte == [a \in 0..255 |-> [b \in 0..255 |-> BitAnd(a, b, 8)]]

Xor16(a, b) == XorByte[a % 256][b % 256] + 256 * XorByte[a \div 256][b \div 256]
And16(a, b) == AndByte[a % 256][b % 256] + 256 * AndByte[a \div 256][b \div 256]

Pow2(n) == 2 ^ n

WXor(a, b) == <<Xor16(a[1], b[1]), Xor16(a[2], b[2])>>
WAnd(a, b) == <<And16(a[1], b[1]), And16(a[2], b[2])>>
WNot(a) == <<65535 - a[1], 65535 - a[2]>>
WAdd(a, b) ==
  LET lo == a[2] + b[2]
  IN <<(a[1] + b[1] + (lo \div 65536)) % 65536, lo % 65536>>

\* rotate right by n, 0 < n < 16
RotrSmall(a, n) ==
  <<(a[1] \div Pow2(n)) + (a[2] % Pow2(n)) * Pow2(16 - n),
    (a[2] \div Pow2(n)) + (a[1] % Pow2(n)) * Pow2(16 - n)>>
Rotr(a, n) ==
  IF n = 16 THEN <<a[2], a[1]>>
  ELSE IF n < 16 THEN RotrSmall(a, n)
  ELSE RotrSmall(<<a[2], a[1]>>, n - 16)
\* shift right by n, 0 < n < 16
Shr(a, n) ==
  <<a[1] \div Pow2(n), (a[2] \div Pow2(n)) + (a[1] % Pow2(n)) * Pow2(16 - n)>>

Sha256K ==
  <<
    <<17034, 12184>>, <<28983, 17553>>, <<46528, 64463>>, <<59829, 56229>>,
    <<14678, 49755>>, <<23025, 4593>>, <<37439, 33444>>, <<43804, 24277>>,
    <<55303, 43672>>, <<4739, 23297>>, <<9265, 34238>>, <<21772, 32195>>,
    <<29374, 23924>>, <<32990, 45566>>, <<39900, 1703>>, <<49563, 61812>>,
    <<58523, 27073>>, <<61374, 18310>>, <<4033, 40390>>, <<9228, 41420>>,
    <<11753, 11375>>, <<19060, 33962>>, <<23728, 43484>>, <<30457, 35034>>,
    <<38974, 20818>>, <<43057, 50797>>, <<45059, 10184>>, <<48985, 32711>>,
    <<50912, 3059>>, <<54695, 37191>>, <<1738, 25425>>, <<5161, 10599>>,
    <<10167, 2693>>, <<11803, 8504>>, <<19756, 28156>>, <<21304, 3347>>,
    <<25866, 29524>>, <<30314, 2747>>, <<33218, 51502>>, <<37490, 11397>>,
    <<41663, 59553>>, <<43034, 26187>>, <<49739, 35696>>, <<51052, 20899>>,
    <<53650, 59417>>, <<54937, 1572>>, <<62478, 13701>>, <<4202, 41072>>,
    <<6564, 49430>>, <<7735, 27656>>, <<10056, 30540>>, <<13488, 48309>>,
    <<14620, 3251>>, <<20184, 43594>>, <<23452, 51791>>, <<26670, 28659>>,
    <<29839, 33518>>, <<30885, 25455>>, <<33992, 30740>>, <<36039, 520>>,
    <<37054, 65530>>, <<42064, 27883>>, <<48889, 41975>>, <<50801, 30962>> >>

Sha256H0 ==
  <<
    <<27145, 58983>>, <<47975, 44677>>, <<15470, 62322>>, <<42319, 62778>>,
    <<20750, 21119>>, <<39685, 26764>>, <<8067, 55723>>, <<23520, 52505>> >>

SmallSigma0(w) == WXor(WXor(Rotr(w, 7), Rotr(w, 18)), Shr(w, 3))
SmallSigma1(w) == WXor(WXor(Rotr(w, 17), Rotr(w, 19)), Shr(w, 10))
BigSigma0(w) == WXor(WXor(Rotr(w, 2), Rotr(w, 13)), Rotr(w, 22))
BigSigma1(w) == WXor(WXor(Rotr(w, 6), Rotr(w, 11)), Rotr(w, 25))
Ch(e, f, g) == WXor(WAnd(e, f), WAnd(WNot(e), g))
Maj(a, b, c) == WXor(WXor(WAnd(a, b), WAnd(a, c)), WAnd(b, c))

Sha256Pad(bytes) ==
  LET n == Len(bytes)
      zeros == (119 - (n % 64)) % 64
      bits == 8 * n
  IN bytes \o <<128>> \o [i \in 1..zeros |-> 0]
       \o <<0, 0, 0, 0, 0, (bits \div 65536) % 256, (bits \div 256) % 256, bits % 256>>

BlockWords(m, blk) ==
  [j \in 1..16 |->
     LET o == 64 * blk + 4 * (j - 1)
     IN <<256 * m[o + 1] + m[o + 2], 256 * m[o + 3] + m[o + 4]>>]

RECURSIVE Schedule(_)
Schedule(w) ==
  IF Len(w) = 64 THEN w
  ELSE LET t == Len(w) + 1
       IN Schedule(Append(w,
            WAdd(WAdd(w[t - 16], SmallSigma0(w[t - 15])),
                 WAdd(w[t - 7], SmallSigma1(w[t - 2])))))

Round(s, kw) ==
  LET t1 == WAdd(WAdd(s[8], BigSigma1(s[5])), WAdd(Ch(s[5], s[6], s[7]), kw))
      t2 == WAdd(BigSigma0(s[1]), Maj(s[1], s[2], s[3]))
  IN <<WAdd(t1, t2), s[1], s[2], s[3], WAdd(s[4], t1), s[5], s[6], s[7]>>

\* the working variables a..h (v) before round t
RECURSIVE Rounds(_, _)
Rounds(s, w) ==
  IF s.t > 64 THEN s.v
  ELSE Rounds([t |-> s.t + 1, v |-> Round(s.v, WAdd(Sha256K[s.t], w[s.t]))], w)

Compress(h, w) ==
  LET s == Rounds([t |-> 1, v |-> h], Schedule(w))
  IN [i \in 1..8 |-> WAdd(h[i], s[i])]

RECURSIVE Blocks(_, _, _)
Blocks(h, m, blk) ==
  IF 64 * blk >= Len(m) THEN h
  ELSE Blocks(Compress(h, BlockWords(m, blk)), m, blk + 1)

\* the 32 digest bytes
Sha256(bytes) ==
  LET h == Blocks(Sha256H0, Sha256Pad(bytes), 0)
  IN [i \in 1..32 |->
        LET w == h[((i - 1) \div 4) + 1]
            half == IF ((i - 1) % 4) < 2 THEN w[1] ELSE w[2]
        IN IF (i - 1) % 2 = 0 THEN half \div 256 ELSE half % 256]

LowerHex == "0123456789abcdef"

\* base16ct::lower::encode_string
RECURSIVE encode_string(_)
encode_string(bytes) ==
  IF Len(bytes) = 0 THEN ""
  ELSE At(LowerHex, (Head(bytes) \div 16) + 1) \o At(LowerHex, (Head(bytes) % 16) + 1)
         \o encode_string(Tail(bytes))

\* str::to_ascii_lowercase
RECURSIVE to_ascii_lowercase(_)
to_ascii_lowercase(s) ==
  IF s = "" THEN ""
  ELSE LET upper == "ABCDEFGHIJKLMNOPQRSTUVWXYZ"
           lower == "abcdefghijklmnopqrstuvwxyz"
           c == At(s, 1)
           at == {i \in 1..26 : At(upper, i) = c}
       IN (IF at = {} THEN c ELSE At(lower, CHOOSE i \in at : TRUE))
            \o to_ascii_lowercase(SubSeq(s, 2, Len(s)))

\* the digest compared with the stored text in any letter case
valid_hash_IgnoreCase(self) ==
  encode_string(Sha256(as_bytes(self.hash_string))) = to_ascii_lowercase(self.hash_wert[1])

\* SubmissionSummary::valid_hash
valid_hash(self) == encode_string(Sha256(as_bytes(self.hash_string))) = self.hash_wert[1]

---------------------------------------------------------------------------
(* The application state and its update function (src/src/main.rs) *)

\* the paths a file dialog or a drop can give
Paths == {"a.csv", "b.csv"}

\* enum Message
PickFile == [type |-> "PickFile"]
ClearFile == [type |-> "ClearFile"]
ReadFile(file) == [type |-> "ReadFile", file |-> file]
Empty == [type |-> "Empty"]

\* Ui::new
Ui_new ==
  [file_path |-> None, status |-> "NoFile", submission_summary |-> None]

\* fs::read_to_string(path).map_err(|_| ()): a path that names no file fails
read_to_string(fs, path) == IF path \in DOMAIN fs THEN fs[path] ELSE Err

\* Ui::parse_file: the file at file_path (or at the empty default path) read
\* and parsed; `?` passes the Err of from_str on
parse_file(self, fs) ==
  LET path == IF self.file_path.some THEN self.file_path.val ELSE ""
      content == read_to_string(fs, path)
  IN IF content.ok THEN SubmissionSummary_from_str(content.val) ELSE Err

\* the else branch sets the status and leaves the summary as it was
UpdateReadFile_KeepsSummary(self, file, fs) ==
  IF file.ok
  THEN LET opened == [self EXCEPT !.file_path = Some(file.val)]
           summary == parse_file(opened, fs)
       IN IF summary.ok
          THEN [opened EXCEPT !.submission_summary = Some(summary.val),
                              !.status = "FileLoaded"]
          ELSE [opened EXCEPT !.status = "ParseError"]
  ELSE self

\* the Message::ReadFile arm of Ui::update
UpdateReadFile(self, file, fs) ==
  IF file.ok
  THEN LET opened == [self EXCEPT !.file_path = Some(file.val)]
           summary == parse_file(opened, fs)
       IN IF summary.ok
          THEN [opened EXCEPT !.submission_summary = Some(summary.val),
                              !.status = "FileLoaded"]
          ELSE [opened EXCEPT !.submission_summary = None,
                              !.status = "ParseError"]
  ELSE self

\* the path left in place
UpdateClearFile_KeepsPath(self) ==
  [self EXCEPT !.status = "NoFile", !.submission_summary = None]

\* the Message::ClearFile arm of Ui::update
UpdateClearFile(self) ==
  [self EXCEPT !.file_path = None, !.status = "NoFile", !.submission_summary = None]

\* Ui::update: the state after the message and the Task it returns, "none"
\* or "pick_file" for Task::perform(Self::pick_file(), Message::ReadFile)
Ui_update(self, message, fs) ==
  CASE message.type = "ReadFile" ->
         [self |-> UpdateReadFile(self, message.file, fs), task |-> "none"]
    [] message.type = "ClearFile" ->
         [self |-> UpdateClearFile(self), task |-> "none"]
    [] message.type = "PickFile" ->
         [self |-> self, task |-> "pick_file"]
    [] message.type = "Empty" ->
         [self |-> self, task |-> "none"]

\* no window: the functions of submission_summary.rs called on their own
NoWindow ==
  /\ ui = Ui_new
  /\ files = [p \in Paths |-> Err]
  /\ tasks = 0

---------------------------------------------------------------------------
(* SpecDate: the structural checks applied to bounded sets of strings *)

\* the longest counter suffix of a date+counter token
MaxCounterLen == 4

\* all strings over the characters of alphabet of length 0..n
RECURSIVE Words(_, _)
Words(alphabet, n) ==
  IF n = 0 THEN {""}
  ELSE LET shorter == Words(alphabet, n - 1)
       IN shorter \cup {w \o c : w \in shorter, c \in Chars(alphabet)}

YearTexts == {"2026", "2000", "2099", "1926", "2100", "0026", "20a6", "202"}
TwoDigitTexts == {a \o b : a \in Chars("01239"), b \in Chars("01239")} \cup {"1a", "-1", "4"}
CounterTexts == Words("019", MaxCounterLen) \cup {"a", "1a", "a1", "12a", "1 ", "-1"}

\* tokens for parse_date_and_number: every month and day text with a few
\* counters, every counter with a few dates, and the strings of the unit tests
Tokens ==
  {y \o m \o d \o c : y \in YearTexts, m \in TwoDigitTexts, d \in TwoDigitTexts,
                      c \in {"", "1", "001", "010"}}
    \cup {y \o md \o c : y \in {"2026", "1926"}, md \in {"0101", "1231", "0100", "1301"},
                         c \in CounterTexts}
    \cup {"20260101", "20260101123456789", "260101001", "", "irgendwas", "26010112",
          "202601011", "2026010112", "20260101123", "20260109001", "20240701001"}

\* strings for is_reasonable_date: every month and day text, with and without
\* the dashes, and the strings of the unit tests
DateTexts ==
  {y \o s1 \o m \o s2 \o d : y \in YearTexts, m \in TwoDigitTexts, d \in TwoDigitTexts,
                             s1 \in {"-", ""}, s2 \in {"-", "/"}}
    \cup {"2026-01-01", "1800-01-01", "2100-01-01", "2026-23-35", "2026-1-1", "2026-01-10",
          "2026-10-12", "2024-02-29", "2026-13-01", "2026-01-32", "", "2026-01-01 ",
          " 2026-01-01", "2026-01-011"}

HexRun == "bad8a31b1759b565bee3d283e68af38e173499bfcce2f50691e7eddda62b2f31"
HexRunUpper == "BAD8A31B1759B565BEE3D283E68AF38E173499BFCCE2F50691E7EDDDA62B2F31"

\* strings for matches_hash_tan_pattern: hex runs of 62..65 characters, cut
\* from both ends, interrupted, and wrapped in other characters
HexTexts ==
  {pre \o SubSeq(run, a, b) \o post :
     run \in {HexRun, HexRunUpper}, a \in 1..2, b \in (HashLen - 1)..HashLen,
     pre \in {"", "x", "f", " "}, post \in {"", "z", "0", "\n"}}
    \cup {SubSeq(HexRun, 1, k) \o mid \o SubSeq(HexRun, k + 1, HashLen) :
            k \in {1, 32, 63}, mid \in {"g", " ", "-", "A"}}
    \cup {"", "xyz", HexRun \o HexRun, HexRun \o "," \o HexRun}

Functions ==
  {"parse_date_and_number", "is_reasonable_date", "matches_count_pattern",
   "matches_hash_tan_pattern"}

InputsOf(f) ==
  CASE f = "parse_date_and_number" -> Tokens
    [] f = "is_reasonable_date" -> DateTexts
    [] f = "matches_count_pattern" -> CounterTexts
    [] f = "matches_hash_tan_pattern" -> HexTexts

InitDate ==
  /\ fn \in Functions
  /\ arg \in InputsOf(fn)
  /\ ret = None
  /\ pc = "call"
  /\ NoWindow

CallParseDateAndNumber ==
  /\ pc = "call"
  /\ fn = "parse_date_and_number"
  /\ ret' = parse_date_and_number(arg)
  /\ pc' = "done"
  /\ UNCHANGED <<fn, arg, ui, files, tasks>>

CallIsReasonableDate ==
  /\ pc = "call"
  /\ fn = "is_reasonable_date"
  /\ ret' = is_reasonable_date(arg)
  /\ pc' = "done"
  /\ UNCHANGED <<fn, arg, ui, files, tasks>>

CallMatchesCountPattern ==
  /\ pc = "call"
  /\ fn = "matches_count_pattern"
  /\ ret' = matches_count_pattern(arg)
  /\ pc' = "done"
  /\ UNCHANGED <<fn, arg, ui, files, tasks>>

CallMatchesHashTanPattern ==
  /\ pc = "call"
  /\ fn = "matches_hash_tan_pattern"
  /\ ret' = matches_hash_tan_pattern(arg)
  /\ pc' = "done"
  /\ UNCHANGED <<fn, arg, ui, files, tasks>>

NextDate ==
  \/ CallParseDateAndNumber
  \/ CallIsReasonableDate
  \/ CallMatchesCountPattern
  \/ CallMatchesHashTanPattern

SpecDate == InitDate /\ [][NextDate]_vars

---------------------------------------------------------------------------
(* Spec: SubmissionSummary::from_str applied to records that differ from   *)
(* the record of the unit tests in at most MaxVar of their pieces          *)

\* the number of pieces of the record replaced at once
MaxVar == 1

\* sha256 of "A123456789&20240701001&260530103&KDKK00001&0&O&9&1&C&2&1"
BaseDigest == HexRun
\* sha256 of "A999999999&20240701001&260530103&KDKK00001&0&O&9&1&C&2&1"
OtherDigest == "3a9de48425aacba0159fed206a1f106dca326a9476a67631d3fe811c5d083a58"

\* the record of test_parse, cut into pieces: line 0, the line ending, the
\* space before line 1, tan, ",", "IBE", "+", code, "+", the eleven payload
\* fields with their "&", "+", part 3, "+", the hash, the text after line 1
BaseRecord ==
  <<Header, "\n", "", HexRun, ",", "IBE", "+", "A123456789", "+",
    "A123456789", "&", "20240701001", "&", "260530103", "&", "KDKK00001", "&", "0", "&",
    "O", "&", "9", "&", "1", "&", "C", "&", "2", "&", "1",
    "+", "9", "+", BaseDigest, "">>

\* where the pieces stand in BaseRecord
Piece ==
  [line0 |-> 1, ending |-> 2, indent |-> 3, tan |-> 4, comma |-> 5, ibe |-> 6,
   code |-> 8, part3 |-> 32, hash |-> 34, rest |-> 35]
PlusPieces == {7, 9, 31, 33}
AmpersandPieces == {11, 13, 15, 17, 19, 21, 23, 25, 27, 29}
FieldPieces == [k \in 0..10 |-> 10 + 2 * k]

\* what may stand in place of piece i
Alternatives(i) ==
  CASE i = Piece.line0 -> {"", "vorgangsnummer,meldebestaetigung", Header \o " ", "Vorgangsnummer",
                 Header \o "\r"}
    [] i = Piece.ending -> {"", "\r\n", "\n\n", " "}
    [] i = Piece.indent -> {" ", "\t \r", "x"}
    [] i = Piece.tan -> {"", "xyz", HexRunUpper, "zz" \o HexRun \o "zz", SubSeq(HexRun, 1, 63)}
    [] i = Piece.comma -> {"", ",,", ";"}
    [] i = Piece.ibe -> {"ibe", "", "IBE ", "XIBE"}
    [] i \in PlusPieces -> {"", "++", "&"}
    [] i = Piece.code -> {"", "B987654321"}
    [] i = FieldPieces[0] -> {"", "A999999999"}
    [] i = FieldPieces[1] -> {"202407011", "2024070112", "20240701123", "20240701010",
                              "20240700001", "20241301001", "20240732001", "202407010001",
                              "20240701", "19240701001", "20240701100", ""}
    [] i = FieldPieces[2] -> {"260840108", "26053010", ""}
    [] i = FieldPieces[3] -> {"KDKK00007", "kdkk00007", ""}
    [] i = FieldPieces[4] -> {"9", "4", ""}
    [] i = FieldPieces[5] -> {"R", "o", ""}
    [] i = FieldPieces[6] -> {"x", ""}
    [] i = FieldPieces[7] -> {"4", "0", ""}
    [] i = FieldPieces[8] -> {"G", "c", ""}
    [] i = FieldPieces[9] -> {"0", "5", ""}
    [] i = FieldPieces[10] -> {"0", "01", "true", "1 ", ""}
    [] i \in AmpersandPieces -> {"", "&&", "+"}
    [] i = Piece.part3 -> {"", "x"}
    [] i = Piece.hash -> {"", OtherDigest, HexRunUpper, "x" \o HexRun, SubSeq(HexRun, 1, 63)}
    [] i = Piece.rest -> {" ", "\n", "\r\n", "\nmore,text", ",x"}

\* the records that differ from base in at most n pieces of the set pieces
RECURSIVE Variations(_, _, _)
Variations(base, pieces, n) ==
  IF n = 0 THEN {base}
  ELSE LET fewer == Variations(base, pieces, n - 1)
       IN fewer \cup {[r EXCEPT ![i] = a] : r \in fewer, <<i, a>> \in
                        UNION {{<<j, b>> : b \in Alternatives(j)} : j \in pieces}}

RECURSIVE Concat(_)
Concat(pieces) == IF pieces = <<>> THEN "" ELSE Head(pieces) \o Concat(Tail(pieces))

\* a record right in every layer whose fields are all unknown, empty or
\* malformed
GarbledRecord ==
  <<Header, "\r\n", "\t", "xyz", ",", "IBE", "+", "", "+",
    "", "&", "202407011", "&", "26053010", "&", "KDKK00001", "&", "4", "&",
    "o", "&", "", "&", "0", "&", "c", "&", "5", "&", "true",
    "+", "", "+", "", " ">>

\* the records up to MaxVar pieces away from the record of the unit tests,
\* and those one piece away from the garbled record
Texts ==
  {Concat(r) : r \in Variations(BaseRecord, DOMAIN BaseRecord, MaxVar)
                       \cup Variations(GarbledRecord, DOMAIN GarbledRecord, 1)}

Init ==
  /\ fn = "from_str"
  /\ arg \in Texts
  /\ ret = Err
  /\ pc = "call"
  /\ NoWindow

FromStr ==
  /\ pc = "call"
  /\ fn = "from_str"
  /\ ret' = SubmissionSummary_from_str(arg)
  /\ pc' = "done"
  /\ UNCHANGED <<fn, arg, ui, files, tasks>>

Next == FromStr

Spec == Init /\ [][Next]_vars

---------------------------------------------------------------------------
(* SpecHash: from_str, then valid_hash on the summary it returned, for     *)
(* records that differ in at most MaxHashVar of the pieces the digest      *)
(* check reads                                                             *)

MaxHashVar == 2

HashRelevantPieces ==
  {Piece.code, FieldPieces[0], FieldPieces[6], Piece.part3, Piece.hash, Piece.rest}

DigestTexts == {Concat(r) : r \in Variations(BaseRecord, HashRelevantPieces, MaxHashVar)}

InitHash ==
  /\ fn = "from_str"
  /\ arg \in DigestTexts
  /\ ret = Err
  /\ pc = "call"
  /\ NoWindow

\* the view asks a loaded summary for valid_hash(); arg becomes self
ValidHash ==
  /\ pc = "done"
  /\ fn = "from_str"
  /\ ret.ok
  /\ fn' = "valid_hash"
  /\ arg' = ret.val
  /\ ret' = valid_hash(ret.val)
  /\ pc' = "done"
  /\ UNCHANGED <<ui, files, tasks>>

NextHash == FromStr \/ ValidHash

SpecHash == InitHash /\ [][NextHash]_vars

---------------------------------------------------------------------------
(* SpecCoded: the seven decoders applied to every code of every table and  *)
(* to texts that are no code                                               *)

AllArms ==
  IkArms \cup DatacenterArms \cup TypDerMeldungArms \cup IndikationsbereichArms
    \cup KostentraegerArms \cup ArtDerDatenArms \cup ArtDerSequenzierungArms

CodeTexts ==
  {a[1] : a \in AllArms}
    \cup {"", " ", "x", "o", "c", "5", "00", "KDKK00001", "grzk00001", "260530103 ",
          " 260530103", "26053010", "Unknown", "Ik260530103", "Erstmeldung", "Gkv", "Wes"}

Decoders ==
  {"Ik", "Datacenter", "TypDerMeldung", "Indikationsbereich", "Kostentraeger",
   "ArtDerDaten", "ArtDerSequenzierung"}

InitCoded ==
  /\ fn \in Decoders
  /\ arg \in CodeTexts
  /\ ret = Err
  /\ pc = "call"
  /\ NoWindow

CallIk ==
  /\ pc = "call"
  /\ fn = "Ik"
  /\ ret' = Ik_from_str(arg)
  /\ pc' = "done"
  /\ UNCHANGED <<fn, arg, ui, files, tasks>>

CallDatacenter ==
  /\ pc = "call"
  /\ fn = "Datacenter"
  /\ ret' = Datacenter_from_str(arg)
  /\ pc' = "done"
  /\ UNCHANGED <<fn, arg, ui, files, tasks>>

CallTypDerMeldung ==
  /\ pc = "call"
  /\ fn = "TypDerMeldung"
  /\ ret' = TypDerMeldung_from_str(arg)
  /\ pc' = "done"
  /\ UNCHANGED <<fn, arg, ui, files, tasks>>

CallIndikationsbereich ==
  /\ pc = "call"
  /\ fn = "Indikationsbereich"
  /\ ret' = Indikationsbereich_from_str(arg)
  /\ pc' = "done"
  /\ UNCHANGED <<fn, arg, ui, files, tasks>>

CallKostentraeger ==
  /\ pc = "call"
  /\ fn = "Kostentraeger"
  /\ ret' = Kostentraeger_from_str(arg)
  /\ pc' = "done"
  /\ UNCHANGED <<fn, arg, ui, files, tasks>>

CallArtDerDaten ==
  /\ pc = "call"
  /\ fn = "ArtDerDaten"
  /\ ret' = ArtDerDaten_from_str(arg)
  /\ pc' = "done"
  /\ UNCHANGED <<fn, arg, ui, files, tasks>>

CallArtDerSequenzierung ==
  /\ pc = "call"
  /\ fn = "ArtDerSequenzierung"
  /\ ret' = ArtDerSequenzierung_from_str(arg)
  /\ pc' = "done"
  /\ UNCHANGED <<fn, arg, ui, files, tasks>>

NextCoded ==
  \/ CallIk
  \/ CallDatacenter
  \/ CallTypDerMeldung
  \/ CallIndikationsbereich
  \/ CallKostentraeger
  \/ CallArtDerDaten
  \/ CallArtDerSequenzierung

SpecCoded == InitCoded /\ [][NextCoded]_vars

---------------------------------------------------------------------------
(* SpecUi: the window.  Every step but FileChanges is one call of          *)
(* Ui::update, run to its end before the next message (pc = "done"): fn is *)
(* "update", arg the message and ret the Task returned.  update takes      *)
(* every message in every state, whichever button the view shows.          *)

\* the number of pick_file dialogs open at once
MaxTasks == 2

\* what a path can hold: nothing readable, the record of test_parse, the
\* record with unknown fields, a header without a record
FileStates ==
  {Err, Ok(Concat(BaseRecord)), Ok(Concat(GarbledRecord)), Ok(Header \o "\n")}

InitUi ==
  /\ fn = "new"
  /\ arg = <<>>
  /\ ret = "none"
  /\ pc = "done"
  /\ ui = Ui_new
  /\ files \in [Paths -> FileStates]
  /\ tasks = 0

\* the runtime hands message to Ui::update; finished of the dialogs have
\* answered with it, and a returned pick_file task opens one more
Deliver(message, finished) ==
  LET r == Ui_update(ui, message, files)
  IN /\ fn' = "update"
     /\ arg' = message
     /\ ret' = r.task
     /\ pc' = "done"
     /\ ui' = r.self
     /\ tasks' = tasks - finished + (IF r.task = "pick_file" THEN 1 ELSE 0)
     /\ UNCHANGED files

\* the ".." button: on_press(Message::PickFile)
PressPickFile ==
  /\ tasks < MaxTasks
  /\ Deliver(PickFile, 0)

\* the "x" button: on_press(Message::ClearFile)
PressClearFile ==
  /\ pc = "done"
  /\ Deliver(ClearFile, 0)

\* a pick_file dialog answers: a path, or Err when it was cancelled
PickFileAnswers ==
  /\ tasks > 0
  /\ \E file \in {Err} \cup {Ok(p) : p \in Paths} : Deliver(ReadFile(file), 1)

\* subscription: Event::FileDropped(file) => Message::ReadFile(Ok(file))
FileDropped ==
  /\ pc = "done"
  /\ \E p \in Paths : Deliver(ReadFile(Ok(p)), 0)

\* subscription: every other window event => Message::Empty
OtherEvent ==
  /\ pc = "done"
  /\ Deliver(Empty, 0)

\* outside the program: a file is written, removed or created
FileChanges ==
  /\ \E p \in Paths, c \in FileStates : files' = [files EXCEPT ![p] = c] /\ files' # files
  /\ UNCHANGED <<fn, arg, ret, pc, ui, tasks>>

NextUi ==
  \/ PressPickFile
  \/ PressClearFile
  \/ PickFileAnswers
  \/ FileDropped
  \/ OtherEvent
  \/ FileChanges

SpecUi == InitUi /\ [][NextUi]_vars

---------------------------------------------------------------------------
(* Properties.  What a property says about the input is read off the input *)
(* text itself: the number of delimiters, the text between them.           *)

Returned(f) == pc = "done" /\ fn = f

Occurrences(s, c) == Cardinality({i \in 1..Len(s) : At(s, i) = c})

Min(S) == CHOOSE x \in S : \A y \in S : x <= y

\* the text before the first c, and the text after it
Before(s, c) == SubSeq(s, 1, Min({i \in 1..Len(s) : At(s, i) = c} \cup {Len(s) + 1}) - 1)
After(s, c) == SubSeq(s, Min({i \in 1..Len(s) : At(s, i) = c} \cup {Len(s) + 1}) + 1, Len(s))

\* the k-th text between c's, k = 0 before the first
RECURSIVE Between(_, _, _)
Between(s, c, k) == IF k = 0 THEN Before(s, c) ELSE Between(After(s, c), c, k - 1)

NumLines(text) == Len(Lines(text))
Line0(text) == Lines(text)[1]
Line1(text) == Trim(Lines(text)[2])
HasHeader(text) == NumLines(text) >= 2 /\ Line0(text) = "Vorgangsnummer,Meldebestaetigung"

\* the "+"-part k of line 1, and the "&"-part k of its payload
PlusPart(text, k) == Between(After(Line1(text), ","), "+", k)
PayloadPart(text, k) == Between(PlusPart(text, 2), "&", k)

CommaShape(text) == Occurrences(Line1(text), ",") = 1
PlusShape(text) == Occurrences(After(Line1(text), ","), "+") = 4
IbeShape(text) == PlusPart(text, 0) = "IBE"
PayloadShape(text) == Occurrences(PlusPart(text, 2), "&") = 10

\* the value of a string of digits
RECURSIVE Number(_)
Number(s) ==
  IF s = "" THEN 0
  ELSE 10 * Number(SubSeq(s, 1, Len(s) - 1))
         + (CHOOSE v \in 0..9 : At("0123456789", v + 1) = At(s, Len(s)))

\* C1: from_str fails for every input that has fewer than 2 lines or whose
\* first line is not exactly the literal "Vorgangsnummer,Meldebestaetigung"
C1_HeaderRequired ==
  Returned("from_str") /\ ~HasHeader(arg) => ret = Err

\* a two-line input whose first line is not the header, rejected
C1_Witness ==
  /\ Returned("from_str")
  /\ NumLines(arg) >= 2
  /\ Line0(arg) # "Vorgangsnummer,Meldebestaetigung"
  /\ ret = Err

\* C2: with a correct header, from_str fails when line 1 has not exactly one
\* ",", or its second part not exactly four "+", or "+"-part 0 is not "IBE",
\* or the payload not exactly ten "&"
C2_DelimiterShape ==
  Returned("from_str") /\ HasHeader(arg)
    /\ ~(CommaShape(arg) /\ PlusShape(arg) /\ IbeShape(arg) /\ PayloadShape(arg))
    => ret = Err

\* a record right in every layer but the innermost, whose payload has 12 parts
C2_Witness ==
  /\ Returned("from_str")
  /\ HasHeader(arg) /\ CommaShape(arg) /\ PlusShape(arg) /\ IbeShape(arg)
  /\ Occurrences(PlusPart(arg, 2), "&") = 11
  /\ ret = Err

\* the header, the part counts of every layer and a token that matches
WellShaped(text) ==
  /\ HasHeader(text)
  /\ CommaShape(text) /\ PlusShape(text) /\ IbeShape(text) /\ PayloadShape(text)
  /\ parse_date_and_number(PayloadPart(text, 1)).some

\* C3: an input with the header, the 2 / 5 ("IBE") / 11 part counts and a
\* date+counter token that matches the pattern parses, whatever tan, the
\* hash, the coded fields, payload part 6 and the acceptance flag contain
C3_SemanticNeverAborts ==
  Returned("from_str") /\ WellShaped(arg) => ret.ok

\* the record whose fields are all unknown, empty or malformed, parsed with
\* every checked field flagged
C3_Witness ==
  /\ Returned("from_str")
  /\ arg = Concat(GarbledRecord)
  /\ ret.ok
  /\ StringValue_is_invalid(ret.val.tan)
  /\ StringValue_is_invalid(ret.val.code)
  /\ StringValue_is_invalid(ret.val.counter)
  /\ StringValue_is_invalid(ret.val.hash_wert)
  /\ Coded_is_invalid(ret.val.ik)
  /\ Coded_is_invalid(ret.val.datacenter)
  /\ Coded_is_invalid(ret.val.typ_der_meldung)
  /\ Coded_is_invalid(ret.val.indikationsbereich)
  /\ Coded_is_invalid(ret.val.kostentraeger)
  /\ Coded_is_invalid(ret.val.art_der_daten)
  /\ Coded_is_invalid(ret.val.art_der_sequenzierung)
  /\ ~ret.val.accepted

\* a token as the description of parse_date_and_number reads
ClaimedToken(s) ==
  /\ Len(s) \in 9..11
  /\ AllIn(s, Digits)
  /\ SubSeq(s, 1, 2) = "20"
  /\ Number(SubSeq(s, 5, 6)) \in 1..12
  /\ Number(SubSeq(s, 7, 8)) \in 1..31
  /\ At(s, Len(s)) # "0"

\* C4: parse_date_and_number accepts a token if and only if it is a year
\* 20YY, a month 01-12, a day 01-31 and a counter of 1 to 3 digits whose last
\* digit is not 0
C4_AcceptsExactlyClaimedTokens ==
  Returned("parse_date_and_number") => (ret.some <=> ClaimedToken(arg))

\* C5: an accepted token s yields the pair of s[0..4]-s[4..6]-s[6..8] and
\* s[8..], the counter verbatim and not empty; a rejected one yields nothing
C5_DateAndCounterTogether ==
  Returned("parse_date_and_number") =>
    IF ret.some
    THEN /\ Len(ret.val) = 2
         /\ Len(ret.val[1]) = 10
         /\ At(ret.val[1], 5) = "-" /\ At(ret.val[1], 8) = "-"
         /\ SubSeq(ret.val[1], 1, 4) \o SubSeq(ret.val[1], 6, 7) \o SubSeq(ret.val[1], 9, 10)
              \o ret.val[2] = arg
         /\ ret.val[2] # ""
    ELSE ret = None

\* a token whose counter starts with zeros, accepted
C5_Witness ==
  /\ Returned("parse_date_and_number")
  /\ ret.some
  /\ arg = "20260109001"
  /\ ret.val = <<"2026-01-09", "001">>


\* C6 reads SHA-256 off a table of digests computed outside the model for
\* every payload SpecHash builds: <<payload, lowercase hex digest>>
KnownDigests ==
  {
    <<"A123456789&20240701001&260530103&KDKK00001&0&O&9&1&C&2&1",
      "bad8a31b1759b565bee3d283e68af38e173499bfcce2f50691e7eddda62b2f31">>,
    <<"A123456789&20240701001&260530103&KDKK00001&0&O&x&1&C&2&1",
      "f8a625a55ba495d6741daa98e5b9075d56ac3f56245cf5974ea896213868a08a">>,
    <<"A123456789&20240701001&260530103&KDKK00001&0&O&&1&C&2&1",
      "877c27d61ee2679d2992919ad1b7702fd01f7c5c0c1ee84d798100f9712be7f0">>,
    <<"&20240701001&260530103&KDKK00001&0&O&9&1&C&2&1",
      "0b452fc79af66e7877c7c3bfcc8d8e9c82bf7f6a1053d86168a4ac2ceea25b26">>,
    <<"&20240701001&260530103&KDKK00001&0&O&x&1&C&2&1",
      "950411889ab95caa79dc0a4d9197016eda89ec1eec3932f9a02270dfe186d7da">>,
    <<"&20240701001&260530103&KDKK00001&0&O&&1&C&2&1",
      "21de9dfbfce56154d8f6185fa7e96d148ed65e6a288ffa8a1cdbf1869fb97624">>,
    <<"A999999999&20240701001&260530103&KDKK00001&0&O&9&1&C&2&1",
      "3a9de48425aacba0159fed206a1f106dca326a9476a67631d3fe811c5d083a58">>,
    <<"A999999999&20240701001&260530103&KDKK00001&0&O&x&1&C&2&1",
      "9f238cca6a505685e0b2128ce6464438f2f187e556555909f24b52e5df1dbe05">>,
    <<"A999999999&20240701001&260530103&KDKK00001&0&O&&1&C&2&1",
      "db89857b00138973fbc2a1441f93dac5982e6baa11e7f4b67c8acdf644120dbe">>
  }

DigestOf(payload) == (CHOOSE d \in KnownDigests : d[1] = payload)[2]

BasePayload == "A123456789&20240701001&260530103&KDKK00001&0&O&9&1&C&2&1"

\* C6: a parsed record keeps "+"-part 2 of line 1 as hash_string and
\* "+"-part 4 as hash_wert, both verbatim; valid_hash() is true if and only
\* if hash_wert is the lowercase hex SHA-256 digest of hash_string; a record
\* with a changed payload and the hash of the unchanged one parses and has
\* valid_hash() false
C6_ValidHashIffDigest ==
  /\ Returned("from_str") /\ ret.ok =>
        /\ ret.val.hash_string = PlusPart(arg, 2)
        /\ ret.val.hash_wert[1] = PlusPart(arg, 4)
  /\ Returned("from_str") /\ WellShaped(arg) /\ PlusPart(arg, 4) = BaseDigest => ret.ok
  /\ Returned("valid_hash") =>
        /\ ret <=> arg.hash_wert[1] = DigestOf(arg.hash_string)
        /\ arg.hash_string # BasePayload /\ arg.hash_wert[1] = BaseDigest => ~ret

\* a record with a changed payload and the hash of the unchanged payload,
\* parsed and found not to match
C6_Witness ==
  /\ Returned("valid_hash")
  /\ arg.hash_string = "A999999999&20240701001&260530103&KDKK00001&0&O&9&1&C&2&1"
  /\ arg.hash_wert[1] = BaseDigest
  /\ ret = FALSE

\* the codes and variants of a decoder, as its match expression lists them
TableOf(decoder) ==
  CASE decoder = "Ik" -> IkArms
    [] decoder = "Datacenter" -> DatacenterArms
    [] decoder = "TypDerMeldung" -> TypDerMeldungArms
    [] decoder = "Indikationsbereich" -> IndikationsbereichArms
    [] decoder = "Kostentraeger" -> KostentraegerArms
    [] decoder = "ArtDerDaten" -> ArtDerDatenArms
    [] decoder = "ArtDerSequenzierung" -> ArtDerSequenzierungArms

\* C7: each of the seven decoders returns Ok for every string; a code of the
\* decoder's own table yields that code's variant, not invalid; every other
\* string u yields Unknown(u) with u unchanged, invalid
C7_DecodersTotal ==
  pc = "done" /\ fn \in Decoders =>
    /\ ret.ok
    /\ IF arg \in {a[1] : a \in TableOf(fn)}
       THEN /\ Len(ret.val) = 1
            /\ <<arg, ret.val[1]>> \in TableOf(fn)
            /\ ret.val[1] # "Unknown"
            /\ ~Coded_is_invalid(ret.val)
       ELSE /\ ret.val = <<"Unknown", arg>>
            /\ Coded_is_invalid(ret.val)

\* a code of the Ik table given to the Kostentraeger decoder: Unknown
C7_Witness ==
  /\ Returned("Kostentraeger")
  /\ arg = "260530103"
  /\ ret = Ok(<<"Unknown", "260530103">>)

\* a date as the description of is_reasonable_date reads
ClaimedDate(s) ==
  /\ Len(s) = 10
  /\ SubSeq(s, 1, 2) = "20"
  /\ AllIn(SubSeq(s, 3, 4), Digits)
  /\ At(s, 5) = "-" /\ At(s, 8) = "-"
  /\ AllIn(SubSeq(s, 6, 7), Digits) /\ Number(SubSeq(s, 6, 7)) \in 1..12
  /\ AllIn(SubSeq(s, 9, 10), Digits) /\ Number(SubSeq(s, 9, 10)) \in 1..31

\* C8: is_reasonable_date(s) is true if and only if s is 20YY-MM-DD with a
\* month 01-12 and a day 01-31
C8_ReasonableIffClaimed ==
  Returned("is_reasonable_date") => (ret <=> ClaimedDate(arg))

\* the counter text of the record: the token of payload part 1 from offset 8
CounterText(text) == SubSeq(PayloadPart(text, 1), 9, Len(PayloadPart(text, 1)))

\* C9: in a parsed record the counter is the token's text from offset 8 and
\* is flagged invalid if and only if it is not exactly 3 digits; a token
\* with a counter of 1 or 2 digits does not make the parse fail
C9_CounterInvalidUnlessThreeDigits ==
  Returned("from_str") =>
    /\ ret.ok =>
          /\ ret.val.counter[1] = CounterText(arg)
          /\ StringValue_is_invalid(ret.val.counter)
                <=> ~(Len(CounterText(arg)) = 3 /\ AllIn(CounterText(arg), Digits))
    /\ WellShaped(arg) /\ Len(PayloadPart(arg, 1)) \in {9, 10} => ret.ok

\* a record with a counter of one digit, parsed, the counter flagged invalid
C9_Witness ==
  /\ Returned("from_str")
  /\ ret.ok
  /\ PayloadPart(arg, 1) = "202407011"
  /\ ret.val.counter = <<"1", TRUE>>
  /\ StringValue_is_invalid(ret.val.counter)

\* some 64 characters in a row of s are hex digits
HasHexRun(s) ==
  \E i \in 1..Len(s) :
    /\ i + 63 <= Len(s)
    /\ \A j \in i..(i + 63) : At(s, j) \in Chars("0123456789abcdefABCDEF")

\* the text of line 1 before its comma
TanText(text) == Before(Line1(text), ",")

\* C10: in a parsed record tan and hash_wert are each flagged invalid if and
\* only if their text holds no run of 64 hex digits; a longer text around a
\* run is valid, an empty or shorter text is invalid and the record parses
C10_TanAndHashInvalidUnlessHexRun ==
  Returned("from_str") =>
    /\ ret.ok =>
          /\ ret.val.tan[1] = TanText(arg)
          /\ StringValue_is_invalid(ret.val.tan) <=> ~HasHexRun(TanText(arg))
          /\ StringValue_is_invalid(ret.val.hash_wert) <=> ~HasHexRun(PlusPart(arg, 4))
    /\ WellShaped(arg) /\ (TanText(arg) = "" \/ PlusPart(arg, 4) = "") => ret.ok

\* a record whose tan has other characters around a run of 64 hex digits,
\* parsed, tan not flagged
C10_Witness ==
  /\ Returned("from_str")
  /\ ret.ok
  /\ TanText(arg) = "zz" \o HexRun \o "zz"
  /\ ~StringValue_is_invalid(ret.val.tan)


\* the record with "+"-part 1 and "+"-part 3 of line 1 emptied
WithoutUnusedParts(text) ==
  Header \o "\n" \o TanText(text) \o "," \o PlusPart(text, 0) \o "++" \o PlusPart(text, 2)
    \o "++" \o PlusPart(text, 4)

\* C11: in a parsed record the code is "&"-part 0 of the payload and is
\* flagged invalid if and only if it is empty; "+"-part 1 and "+"-part 3
\* cause no failure and no field depends on them: the record with both
\* emptied gives the same result
C11_CodeFromPayloadOnly ==
  Returned("from_str") =>
    /\ ret.ok =>
          /\ ret.val.code[1] = PayloadPart(arg, 0)
          /\ StringValue_is_invalid(ret.val.code) <=> PayloadPart(arg, 0) = ""
    /\ WellShaped(arg) =>
          /\ ret.ok
          /\ ret = SubmissionSummary_from_str(WithoutUnusedParts(arg))

\* a record whose "+"-part 1 differs from the code and whose code is empty,
\* parsed, the code flagged
C11_Witness ==
  /\ Returned("from_str")
  /\ ret.ok
  /\ PlusPart(arg, 1) = "A123456789"
  /\ PayloadPart(arg, 0) = ""
  /\ ret.val.code = <<"", FALSE>>
  /\ StringValue_is_invalid(ret.val.code)

\* C12: in a parsed record accepted is true if and only if "&"-part 10 of
\* the payload is exactly "1"; no other text there makes the parse fail
C12_AcceptedIffOne ==
  Returned("from_str") =>
    /\ ret.ok => (ret.val.accepted <=> PayloadPart(arg, 10) = "1")
    /\ WellShaped(arg) => ret.ok

\* a record whose flag is "1 " inside the payload, parsed, not accepted
C12_Witness ==
  /\ Returned("from_str")
  /\ ret.ok
  /\ PayloadPart(arg, 10) = "1 "
  /\ PlusPart(arg, 3) = "9"
  /\ ~ret.val.accepted


\* sub occurs in s
Contains(s, sub) ==
  \E i \in 1..(Len(s) - Len(sub) + 1) : SubSeq(s, i, i + Len(sub) - 1) = sub

\* what the scenario says of every field but ik
ScenarioFields(summary) ==
  /\ summary.code = <<"A123456789", FALSE>>
  /\ summary.date[1] = "2024-07-01"
  /\ summary.counter[1] = "001" /\ ~StringValue_is_invalid(summary.counter)
  /\ summary.datacenter = <<"Unknown", "KDKK00001">> /\ Coded_is_invalid(summary.datacenter)
  /\ TypDerMeldung_fmt(summary.typ_der_meldung) = "Erstmeldung"
  /\ summary.indikationsbereich = <<"O">>
  /\ Kostentraeger_fmt(summary.kostentraeger) = "GKV"
  /\ ArtDerDaten_fmt(summary.art_der_daten) = "Klinische Daten"
  /\ ArtDerSequenzierung_fmt(summary.art_der_sequenzierung) = "WES"
  /\ summary.accepted

\* a well-shaped record with the payload of the scenario
IsScenario(text) == WellShaped(text) /\ PlusPart(text, 2) = BasePayload

\* C13 as stated: the scenario record parses to the listed fields, ik being
\* the variant of the institution in Tübingen
C13_ScenarioIkTuebingen ==
  Returned("from_str") /\ IsScenario(arg) =>
    /\ ret.ok
    /\ ScenarioFields(ret.val)
    /\ ~Coded_is_invalid(ret.val.ik)
    /\ Contains(Ik_fmt(ret.val.ik), "Tübingen")

\* C13: the scenario record parses to the listed fields, ik being the known
\* variant Ik260530103, displayed as "Universitätsklinikum Bonn (260530103)"
C13_ScenarioIkBonn ==
  Returned("from_str") /\ IsScenario(arg) =>
    /\ ret.ok
    /\ ScenarioFields(ret.val)
    /\ ~Coded_is_invalid(ret.val.ik)
    /\ ret.val.ik = <<"Ik260530103">>
    /\ Ik_fmt(ret.val.ik) = "Universitätsklinikum Bonn (260530103)"

\* the record of test_parse, parsed
C13_Witness ==
  /\ Returned("from_str")
  /\ arg = Concat(BaseRecord)
  /\ ret.ok
  /\ ret.val.ik = <<"Ik260530103">>
  /\ ret.val.tan = <<HexRun, FALSE>>


\* C14: in every state of the Ui a summary is present if and only if the
\* status is FileLoaded, and a path is present if and only if the status is
\* not NoFile
C14_SummaryIffFileLoaded ==
  /\ ui.submission_summary.some <=> ui.status = "FileLoaded"
  /\ ui.file_path.some <=> ui.status # "NoFile"
  /\ ui.status \in {"NoFile", "FileLoaded", "ParseError"}

\* a file that does not parse was read: a path, no summary, ParseError
C14_Witness ==
  /\ fn = "update"
  /\ arg \in {ReadFile(Ok(p)) : p \in Paths}
  /\ ui.file_path = Some(arg.file.val)
  /\ ui.submission_summary = None
  /\ ui.status = "ParseError"

\* what ReadFile(Ok(path)) leaves behind, read off the file at path
AfterReadFile(path, after, fs) ==
  /\ after.file_path = Some(path)
  /\ IF fs[path].ok /\ WellShaped(fs[path].val)
     THEN /\ after.status = "FileLoaded"
          /\ after.submission_summary.some
          /\ after.submission_summary.val.tan[1] = TanText(fs[path].val)
          /\ after.submission_summary.val.hash_string = PlusPart(fs[path].val, 2)
          /\ after.submission_summary.val.hash_wert[1] = PlusPart(fs[path].val, 4)
     ELSE /\ after.status = "ParseError"
          /\ after.submission_summary = None

\* one call of update, told by the message it handled
UpdateKeepsNothingStale ==
  files' = files =>
    CASE arg'.type = "ReadFile" /\ arg'.file.ok -> AfterReadFile(arg'.file.val, ui', files)
      [] arg'.type = "ReadFile" /\ ~arg'.file.ok -> ui' = ui
      [] arg'.type = "PickFile" -> ui' = ui
      [] arg'.type = "Empty" -> ui' = ui
      [] arg'.type = "ClearFile" -> ui' = Ui_new

\* C15: after ReadFile(Ok(path)) in any state file_path is the new path and
\* either the summary is that of the new file with status FileLoaded, or
\* there is no summary and the status is ParseError; ReadFile(Err), PickFile
\* and Empty leave file_path, status and summary unchanged; ClearFile
\* resets all three to the initial state
C15_NoStaleSummary == [][UpdateKeepsNothingStale]_vars

\* a summary was shown and a file that does not parse was read after it:
\* the earlier summary is gone
C15_Witness ==
  /\ fn = "update"
  /\ arg = ReadFile(Ok("b.csv"))
  /\ files["a.csv"] = Ok(Concat(BaseRecord))
  /\ files["b.csv"] = Ok(Header \o "\n")
  /\ ui = [file_path |-> Some("b.csv"), status |-> "ParseError", submission_summary |-> None]


\* C16: when valid_hash() is true, hash_wert is not flagged invalid
C16_ValidHashImpliesHashNotFlagged ==
  Returned("valid_hash") /\ ret => ~StringValue_is_invalid(arg.hash_wert)

\* the converse fails: the digest of the payload in upper-case hex digits
\* is not flagged, and valid_hash() is false
C16_Witness ==
  /\ Returned("valid_hash")
  /\ arg.hash_string = BasePayload
  /\ arg.hash_wert = <<HexRunUpper, FALSE>>
  /\ ~StringValue_is_invalid(arg.hash_wert)
  /\ ret = FALSE

\* the last character of s
Last(s) == At(s, Len(s))

\* C17: in a parsed record the date is never flagged invalid and satisfies
\* is_reasonable_date, and the counter never ends in 0; a record whose
\* counter is "010" or "100" does not parse
C17_DateNeverFlagged ==
  Returned("from_str") =>
    /\ ret.ok =>
          /\ ~StringValue_is_invalid(ret.val.date)
          /\ is_reasonable_date(ret.val.date[1])
          /\ ret.val.counter[1] # ""
          /\ Last(ret.val.counter[1]) # "0"
          /\ Last(PayloadPart(arg, 1)) # "0"
    /\ NumLines(arg) >= 2 /\ PayloadPart(arg, 1) \in {"20240701010", "20240701100"}
         => ret = Err

\* a record with day 00, parsed, the date not flagged
C17_Witness ==
  /\ Returned("from_str")
  /\ ret.ok
  /\ PayloadPart(arg, 1) = "20240700001"
  /\ ret.val.date = <<"2024-07-00", FALSE>>
  /\ ~StringValue_is_invalid(ret.val.date)

=============================================================================
